---- MODULE Spec2Model ----
(***************************************************************************)
(* A model of the command layer of the NOW game modules: the pose/try      *)
(* command (NOW/commands/command.py) and the say, ooc and spoof commands   *)
(* (commands/say.py).                                                      *)
(*                                                                         *)
(* Text is a sequence of characters.  A character is a one-element TLA+    *)
(* string; a character outside ASCII is written by its code point          *)
(* ("U2026" is the ellipsis).  The code is Python 2: self.args is a        *)
(* unicode object and the literals of the source are byte strings.         *)
(***************************************************************************)
EXTENDS Integers, Sequences, FiniteSets, TLC

VARIABLES
    pc,         \* where the dispatcher is: "start", "parsed", "done"
    cmdname,    \* the command class that matched: "pose", "say", "ooc", "spoof"
    cmdstring,  \* self.cmdstring: the name or alias the player typed
    switches,   \* self.switches
    input,      \* self.args as MuxCommand.parse left it, before the handler ran
    args,       \* self.args
    verb,       \* CmdPose: self.verb
    obj,        \* CmdPose: self.obj
    searched,   \* the calls made to caller.search, in order
    error,      \* the exception the handler raised, or "none"
    env,        \* the caller: has a character, the character a location, the
                \* location an account of its own
    sayVerb,    \* the character's attribute 'say-verb'
    prepend,    \* the character's db.messages['say prepend']
    speech,     \* CmdSay.func: speech
    out,        \* what the handler sent, in order
    justified,  \* CmdSpoof.func: the calls made to justify, in order
    log,        \* the calls already handled for this caller, in order
    mux,        \* MuxCommand.parse: the fields it leaves on the command
    sessions,   \* CmdQuit: the player's connected sessions
    quit,       \* CmdQuit: the last @quit handled, or NoQuit
    surface,    \* Object: each object's attribute 'surface' (a dict), or NoAttr
    locked,     \* Object: the objects that have the attribute 'locked'
    surfaceOp,  \* Object: the last surface_put or surface_off, or NoOp
    details,    \* Object: the attribute 'details', or NoAttr
    detailOp,   \* Object: the last set_detail or return_detail, or NoOp
    everSet,    \* Object: the keys set_detail has been given so far
    inline      \* inlinefuncs: the call of annotate and what it returned

poseVars == <<verb, obj, searched>>
sayVars == <<env, sayVerb, prepend, speech, out, justified>>
quitVars == <<sessions, quit>>
surfaceVars == <<surface, locked, surfaceOp>>
detailVars == <<details, detailOp, everSet>>
inlineVars == <<inline>>

\* What no handler of a command text touches.
laterVars == <<quitVars, surfaceVars, detailVars, inlineVars>>

\* What the handlers of pose, say, ooc and spoof leave alone.
worldVars == <<log, mux, laterVars>>

\* The fields of the command in hand and of its caller.
cmdVars == <<pc, cmdname, cmdstring, switches, input, args, error>>
vars == <<pc, cmdname, cmdstring, switches, input, args, verb, obj, searched, error,
          env, sayVerb, prepend, speech, out, justified, log, mux, sessions, quit,
          surface, locked, surfaceOp, details, detailOp, everSet, inline>>

(***************************************************************************)
(* Bounds of the model.                                                    *)
(***************************************************************************)
MaxPoseLen == 7

(***************************************************************************)
(* Python values.                                                          *)
(***************************************************************************)
None == [isNone |-> TRUE, v |-> <<>>]
Some(x) == [isNone |-> FALSE, v |-> x]

SPACE == " "

NL == "\n"

\* The whitespace that strip(), rstrip() and split() take away.
Whitespace == {SPACE, NL}

\* The characters of the source's glyph list that are not ASCII.
NonAscii == {"UAE", "UA9", "UB0", "UB7", "U2019", "U2026"}

IsAscii(c) == c \notin NonAscii

\* Every text over the alphabet A of length at most n.
TextsUpTo(A, n) == UNION {[1..k -> A] : k \in 0..n}

(***************************************************************************)
(* unicode.strip(), unicode.split() and unicode.split(sep, 1).             *)
(***************************************************************************)
\* The indices of s that hold something other than whitespace.
NonSpaceAt(s) == {i \in 1..Len(s) : s[i] \notin Whitespace}

\* s.lstrip(): s from its first non-space character on.
LStrip(s) ==
    IF NonSpaceAt(s) = {} THEN <<>>
    ELSE SubSeq(s, CHOOSE i \in NonSpaceAt(s) : \A j \in NonSpaceAt(s) : i <= j, Len(s))

\* s.rstrip(): s up to its last non-space character.
RStrip(s) ==
    IF NonSpaceAt(s) = {} THEN <<>>
    ELSE SubSeq(s, 1, CHOOSE i \in NonSpaceAt(s) : \A j \in NonSpaceAt(s) : j <= i)

Strip(s) == RStrip(LStrip(s))

\* s.split(): the maximal runs of non-whitespace characters, in order.
RECURSIVE SplitWsFrom(_, _, _)
SplitWsFrom(s, cur, acc) ==
    IF s = <<>>
    THEN IF cur = <<>> THEN acc ELSE Append(acc, cur)
    ELSE IF Head(s) \in Whitespace
         THEN SplitWsFrom(Tail(s), <<>>, IF cur = <<>> THEN acc ELSE Append(acc, cur))
         ELSE SplitWsFrom(Tail(s), Append(cur, Head(s)), acc)

SplitWs(s) == SplitWsFrom(s, <<>>, <<>>)

\* The index of the first "::" in s, or 0.
FindSep(s) ==
    LET hits == {i \in 1..(Len(s) - 1) : s[i] = ":" /\ s[i + 1] = ":"}
    IN  IF hits = {} THEN 0 ELSE CHOOSE i \in hits : \A j \in hits : i <= j

\* s.split('::', 1): one part when there is no "::", else the text before
\* the first "::" and the text after it.
SplitSep1(s) ==
    LET i == FindSep(s)
    IN  IF i = 0 THEN <<s>>
        ELSE <<SubSeq(s, 1, i - 1), SubSeq(s, i + 2, Len(s))>>

(***************************************************************************)
(* CmdPose.parse                                                           *)
(***************************************************************************)
non_space_chars ==
    <<"UAE", "UA9", "UB0", "UB7", "~", "@", "-", "'", "U2019", ",", ";", ":",
      ".", "?", "!", "U2026">>

\* Python 2's u == s for a unicode character u and a byte string s: s is
\* decoded as ASCII first, and when that fails the two are unequal.
PyEqNoAsciiCheck(u, s) == u = s

PyEq(u, s) == IsAscii(s) /\ u = s

\* args[0] in non_space_chars
InNonSpaceChars(c) == \E i \in DOMAIN non_space_chars : PyEq(c, non_space_chars[i])

\* if self.cmdstring == 'try': args += '::'
TryAppendNever(cs, a) == a

TryAppend(cs, a) == IF cs = "try" THEN a \o <<":", ":">> ELSE a

\* 0 < len(verbnoun.split()) <= 2
VerbNounOKNoUpper(toks) == 0 < Len(toks)

VerbNounOKNoLower(toks) == Len(toks) <= 2

VerbNounOK(toks) == 0 < Len(toks) /\ Len(toks) <= 2

\* The verb and the noun of a verb/noun text of one or two words.
VerbNounSwapped(verbnoun) ==
    LET toks == SplitWs(verbnoun)
    IN  IF Len(toks) = 2
        THEN [verb |-> toks[2], noun |-> toks[1]]
        ELSE [verb |-> Strip(verbnoun), noun |-> <<"m", "e">>]

VerbNoun(verbnoun) ==
    LET toks == SplitWs(verbnoun)
    IN  IF Len(toks) = 2
        THEN [verb |-> toks[1], noun |-> toks[2]]
        ELSE [verb |-> Strip(verbnoun), noun |-> <<"m", "e">>]

\* if args and not args[0] in non_space_chars: whether a space is needed, or
\* the IndexError that args[0] raises on an empty text.
NeedsSpaceUnguarded(a) ==
    IF a = <<>> THEN "IndexError"
    ELSE IF ~InNonSpaceChars(a[1]) THEN "yes" ELSE "no"

NeedsSpace(a) ==
    IF a = <<>> THEN "no"
    ELSE IF ~InNonSpaceChars(a[1]) THEN "yes" ELSE "no"

\* args = " %s" % args.strip()
WithSpaceNoStrip(a) == <<SPACE>> \o a

WithSpace(a) == <<SPACE>> \o Strip(a)

Spacing(a) == IF NeedsSpace(a) = "yes" THEN WithSpace(a) ELSE a

\* self.obj = caller.search(noun, location=[caller, caller.location]): the
\* call it adds to those made.
SearchCallSkipped(noun) == <<>>

SearchCall(noun) == <<noun>>

\* The objects caller.search can return: None (no match, or several) or one.
SearchResults == {"None", "caller", "thing"}

\* The whole of parse(), as the values it leaves on the command; found is
\* what caller.search returns if it is called.
ParseResult(cs, a0, found) ==
    LET a1 == TryAppend(cs, a0)
        parts == SplitSep1(a1)
        taken == Len(parts) > 1 /\ VerbNounOK(SplitWs(parts[1]))
        vn == VerbNoun(parts[1])
        a2 == IF taken THEN parts[2] ELSE a1
        base == IF taken
                THEN [verb |-> Some(vn.verb), obj |-> found, searched |-> SearchCall(vn.noun)]
                ELSE [verb |-> None, obj |-> "None", searched |-> <<>>]
    IN  IF NeedsSpace(a2) = "IndexError"
        THEN [error |-> "IndexError", verb |-> base.verb, obj |-> base.obj,
              searched |-> base.searched, args |-> a0]
        ELSE [error |-> "none", verb |-> base.verb, obj |-> base.obj,
              searched |-> base.searched, args |-> Spacing(a2)]

\* What MuxCommand.parse leaves in self.args: text with no space at either end.
PoseAlphabet == {"a", SPACE, ":", "U2026"}

PoseArgs == {s \in TextsUpTo(PoseAlphabet, MaxPoseLen) : Strip(s) = s}

PoseCmdStrings == {"pose", ":", ";", "emote", "try"}

PoseSwitches == {{}}

PoseParse ==
    /\ pc = "start"
    /\ cmdname = "pose"
    /\ \E found \in SearchResults :
         LET r == ParseResult(cmdstring, input, found)
         IN  /\ error' = r.error
             /\ verb' = r.verb
             /\ obj' = r.obj
             /\ searched' = r.searched
             /\ args' = r.args
    /\ pc' = IF error' = "none" THEN "parsed" ELSE "done"
    /\ UNCHANGED <<cmdname, cmdstring, switches, input>>
    /\ UNCHANGED sayVars
    /\ UNCHANGED worldVars

\* The fields of a command before MuxCommand.parse has run.
Unparsed == [raw |-> <<>>, switches |-> <<>>, args |-> <<>>, lhs |-> <<>>, rhs |-> None]

\* No attribute of that name, no call yet.
NoAttr == [has |-> FALSE, map |-> <<>>]
NoOp == [op |-> "none"]
NoQuit == [session |-> 0, all |-> FALSE, before |-> {}, msg |-> <<>>]

MaxObjects == 3

Objects == 1..MaxObjects

\* Nobody is connected.
QuitIdle ==
    /\ sessions = {}
    /\ quit = NoQuit

\* Objects as created: no attribute 'surface', none 'locked'.
SurfaceIdle ==
    /\ surface = [o \in Objects |-> NoAttr]
    /\ locked = {}
    /\ surfaceOp = NoOp

\* An object as created: no attribute 'details'.
DetailIdle ==
    /\ details = NoAttr
    /\ detailOp = NoOp
    /\ everSet = {}

InlineIdle == inline = NoOp

\* Nothing has been handled yet.
WorldInit ==
    /\ log = <<>>
    /\ mux = Unparsed
    /\ QuitIdle
    /\ SurfaceIdle
    /\ DetailIdle
    /\ InlineIdle

\* No command text is in hand.
CmdIdle ==
    /\ pc = "idle"
    /\ cmdname = "none"
    /\ cmdstring = "none"
    /\ switches = {}
    /\ input = <<>>
    /\ args = <<>>
    /\ verb = None
    /\ obj = "None"
    /\ searched = <<>>
    /\ error = "none"
    /\ env = [char |-> TRUE, here |-> TRUE, hasAccount |-> FALSE]
    /\ sayVerb = None
    /\ prepend = None
    /\ speech = <<>>
    /\ out = <<>>
    /\ justified = <<>>

NoEnv == [char |-> TRUE, here |-> TRUE, hasAccount |-> FALSE]

Init ==
    /\ pc = "start"
    /\ cmdname = "pose"
    /\ cmdstring \in PoseCmdStrings
    /\ switches \in PoseSwitches
    /\ input \in PoseArgs
    /\ args = input
    /\ verb = None
    /\ obj = "None"
    /\ searched = <<>>
    /\ error = "none"
    /\ env = NoEnv
    /\ sayVerb = None
    /\ prepend = None
    /\ speech = <<>>
    /\ out = <<>>
    /\ justified = <<>>
    /\ WorldInit

Next == PoseParse

Spec == Init /\ [][Next]_vars


(***************************************************************************)
(* The claims about pose parsing.  The definitions below state the claims  *)
(* in the words of the specification; they do not use the operators that   *)
(* model CmdPose.parse.                                                    *)
(***************************************************************************)
\* The fixed glyph set of the specification: every glyph of the list.
GlyphSet == {non_space_chars[i] : i \in DOMAIN non_space_chars}

\* The glyph-spacing rule as the specification states it.
GlyphRule(t) == IF t # <<>> /\ t[1] \notin GlyphSet THEN <<SPACE>> \o t ELSE t

\* The args that are processed: the input, with "::" after it under try.
Processed == IF cmdstring = "try" THEN input \o <<":", ":">> ELSE input

HasSep == FindSep(Processed) # 0

BeforeSep == SubSeq(Processed, 1, FindSep(Processed) - 1)

AfterSep == SubSeq(Processed, FindSep(Processed) + 2, Len(Processed))

Words == SplitWs(BeforeSep)

Parsed == cmdname = "pose" /\ pc = "parsed"

\* The pose text before the glyph-spacing rule: the text after the separator
\* when a verb was parsed, the processed args otherwise.
RawPose == IF verb.isNone THEN Processed ELSE AfterSep

\* C1: for pose (not try), when args holds no "::", no verb and no target are
\* set and the pose text is args after the glyph-spacing rule alone.
C1_NoSeparator ==
    (Parsed /\ cmdstring # "try" /\ FindSep(input) = 0)
        => /\ verb = None
           /\ obj = "None"
           /\ args = GlyphRule(input)

\* C2: with a "::", one word before it gives verb = the word and target
\* fragment "me", two words give verb = the first and target fragment = the
\* second, and in both cases the pose text is the text after the first "::"
\* (up to the space at its ends, which the glyph-spacing rule governs).
C2_VerbAndTarget ==
    (Parsed /\ HasSep /\ Len(Words) \in {1, 2})
        => /\ verb = Some(Words[1])
           /\ searched = <<IF Len(Words) = 2 THEN Words[2] ELSE <<"m", "e">>>>
           /\ Strip(args) = Strip(AfterSep)

C2_Witness ==
    /\ Parsed /\ cmdstring = "pose"
    /\ input = <<"a", SPACE, "a", "a", ":", ":", ":">>
    /\ verb = Some(<<"a">>) /\ searched = <<<<"a", "a">>>> /\ args = <<":">>

\* C3: a verb is set only if a "::" is present with one or two words before
\* it; with any other number of words no verb and no target are set and the
\* whole input, "::" included, is the pose text.
C3_VerbOnlyForOneOrTwoWords ==
    Parsed =>
        /\ ~verb.isNone => (HasSep /\ Len(Words) \in {1, 2})
        /\ (HasSep /\ Len(Words) \notin {1, 2})
              => /\ verb = None
                 /\ obj = "None"
                 /\ searched = <<>>
                 /\ Strip(args) = Processed
                 /\ FindSep(args) # 0

C3_Witness ==
    /\ Parsed /\ HasSep /\ Len(Words) = 3 /\ cmdstring = "emote"
    /\ verb = None /\ FindSep(args) # 0

\* C4: a non-empty pose text whose first character is not in the glyph set
\* gets exactly one space before it and is otherwise unchanged; a text that
\* is empty or starts with a glyph is unchanged.
C4_GlyphSpacing == Parsed => args = GlyphRule(RawPose)

\* C5 as stated: under try every input is taken as verb/noun and the pose
\* text is empty.
C5_TryAlwaysEmptyPose ==
    (Parsed /\ cmdstring = "try") => (~verb.isNone /\ args = <<>>)

\* C5, amended: under try "::" is appended, so that every input of one or
\* two words that holds no "::" and does not end in ":" is taken as verb/noun
\* and the pose text is empty.
C5_TryOneOrTwoWords ==
    (/\ Parsed /\ cmdstring = "try"
     /\ FindSep(input \o <<":", ":">>) = Len(input) + 1
     /\ Len(SplitWs(input)) \in {1, 2})
        => /\ verb = Some(SplitWs(input)[1])
           /\ searched = <<IF Len(SplitWs(input)) = 2 THEN SplitWs(input)[2]
                                                       ELSE <<"m", "e">>>>
           /\ args = <<>>

C5_Witness ==
    /\ Parsed /\ cmdstring = "try" /\ input = <<"a", SPACE, "a", "a">>
    /\ verb = Some(<<"a">>) /\ args = <<>>

\* C6 as stated: pose parsing never calls the object search.
C6_NeverSearches == searched = <<>>

\* C6, amended: pose parsing calls the object search itself, once, exactly
\* when a verb is parsed, with the target fragment (the second word, or
\* "me"), and keeps the result as the target; without a verb it does not
\* search and no target is set.
C6_SearchesWhenVerb ==
    Parsed =>
        /\ verb.isNone => (searched = <<>> /\ obj = "None")
        /\ ~verb.isNone =>
              searched = <<IF Len(Words) = 2 THEN Words[2] ELSE <<"m", "e">>>>

C6_Witness ==
    /\ Parsed /\ ~verb.isNone /\ obj = "thing"
    /\ searched = <<<<"a", "a">>>>

\* C7: pose parsing never raises, whatever the args and the alias, and an
\* input that gives no verb/noun becomes the pose text whole.
C7_NeverRaises ==
    (cmdname = "pose" /\ pc # "start")
        => /\ error = "none"
           /\ pc = "parsed"
           /\ (~HasSep \/ Len(Words) \notin {1, 2})
                 => (verb = None /\ Strip(args) = Processed)

C7_Witness ==
    /\ Parsed /\ error = "none" /\ args = <<>> /\ cmdstring = "try"
    /\ ~verb.isNone


(***************************************************************************)
(* What the commands of say.py send.                                       *)
(*                                                                         *)
(* A text handed on is a sequence whose elements are single characters     *)
(* or, for the literal parts of the source's templates, a whole piece of   *)
(* text without a brace in it ("char" is the four letters of the           *)
(* placeholder's name, "NAME" a display name).                             *)
(***************************************************************************)
MaxSayLen == 3

NAME == <<"NAME">>

CharField == <<"char">>

\* One thing sent: by which call, the text, the names bound by `mapping`,
\* and whether options={'raw': True} was given.  pad is the number of spaces
\* that come before the text (' ' * indent + text).
Padded(sink, pad, text, mapping, raw) ==
    [sink |-> sink, pad |-> pad, text |-> text, mapping |-> mapping, raw |-> raw]

Sent(sink, text, mapping, raw) == Padded(sink, 0, text, mapping, raw)

\* world.helpers.escape_braces: every brace is doubled.  The text is taken
\* by halves, which keeps the evaluation shallow on a justified line.
RECURSIVE escape_braces(_)
escape_braces(t) ==
    IF t = <<>> THEN <<>>
    ELSE IF Len(t) = 1
    THEN IF t[1] \in {"{", "}"} THEN <<t[1], t[1]>> ELSE t
    ELSE escape_braces(SubSeq(t, 1, Len(t) \div 2))
             \o escape_braces(SubSeq(t, Len(t) \div 2 + 1, Len(t)))

\* str.format(**bindings), as msg_contents applies it to the text when it is
\* given a mapping: "{{" and "}}" are the braces themselves, "{name}" is the
\* binding of name, and everything else with a brace in it raises.
RECURSIVE FormatFrom(_, _, _)
FormatFrom(t, bindings, acc) ==
    IF t = <<>> THEN [err |-> "none", text |-> acc]
    ELSE IF Head(t) = "{"
    THEN IF Len(t) >= 2 /\ t[2] = "{"
         THEN FormatFrom(SubSeq(t, 3, Len(t)), bindings, Append(acc, "{"))
         ELSE LET closes == {i \in 2..Len(t) : t[i] = "}"}
              IN  IF closes = {}
                  THEN [err |-> "ValueError", text |-> <<>>]
                  ELSE LET j == CHOOSE i \in closes : \A k \in closes : i <= k
                           field == SubSeq(t, 2, j - 1)
                       IN  IF field \in DOMAIN bindings
                           THEN FormatFrom(SubSeq(t, j + 1, Len(t)), bindings,
                                           acc \o bindings[field])
                           ELSE [err |-> IF field = <<>> THEN "IndexError"
                                         ELSE "KeyError",
                                 text |-> <<>>]
    ELSE IF Head(t) = "}"
    THEN IF Len(t) >= 2 /\ t[2] = "}"
         THEN FormatFrom(SubSeq(t, 3, Len(t)), bindings, Append(acc, "}"))
         ELSE [err |-> "ValueError", text |-> <<>>]
    ELSE FormatFrom(Tail(t), bindings, Append(acc, Head(t)))

Format(t, bindings) == FormatFrom(t, bindings, <<>>)

\* What the receivers of one sent text get: msg_contents formats the text
\* with the display name bound to each name of the mapping when there is a
\* mapping, and passes the text on as it is when there is none; msg passes
\* it on as it is.
Rendered(d) ==
    IF d.sink = "msg_contents" /\ d.mapping # {}
    THEN Format(d.text, [f \in d.mapping |-> NAME])
    ELSE [err |-> "none", text |-> d.text]

\* ' '.join(words)
RECURSIVE JoinWs(_)
JoinWs(ws) ==
    IF ws = <<>> THEN <<>>
    ELSE IF Len(ws) = 1 THEN ws[1]
    ELSE ws[1] \o <<SPACE>> \o JoinWs(Tail(ws))

\* parse_say, one word: /word/ is kept, //word loses a slash, /word is
\* replaced by the display name of what char.search finds (hit), with the
\* word's closing punctuation after it.
SayWord(each, hit) ==
    IF each[1] = "/"
    THEN IF each[Len(each)] = "/" THEN each
         ELSE IF each[2] = "/" THEN Tail(each)
         ELSE IF hit
              THEN <<"OBJ">> \o (IF each[Len(each)] \in {".", ",", "!", "?"}
                                 THEN <<each[Len(each)]>> ELSE <<>>)
              ELSE each
    ELSE each

parse_say(text, hit) ==
    LET ws == SplitWs(text)
    IN  JoinWs([i \in 1..Len(ws) |-> SayWord(ws[i], hit)])

\* '{char} warms up vocally with "%s|n"' % escape_braces(args)
WarmUpText(a) ==
    <<"{", "char", "}", " warms up vocally with \"">> \o escape_braces(a) \o <<"|n\"">>

\* '[OOC] {char} says, |n"|w%s|n"' % escape_braces(speech)
SayOocTextUnescaped(sp) ==
    <<"[OOC] ", "{", "char", "}", " says, |n\"|w">> \o sp \o <<"|n\"">>

SayOocText(sp) ==
    <<"[OOC] ", "{", "char", "}", " says, |n\"|w">> \o escape_braces(sp) \o <<"|n\"">>

\* '[OOC] %s says, |n"|w%s|n"' % (char.get_display_name(here), escape_braces(speech))
SayOocInsideText(sp) ==
    <<"[OOC] ">> \o NAME \o <<" says, |n\"|w">> \o escape_braces(sp) \o <<"|n\"">>

\* '{char} %s, |n"%s%s|n"' % (escape_braces(verb), escape_braces(prepend),
\*                            escape_braces(speech))
SayTextVerbUnescaped(v, pre, sp) ==
    <<"{", "char", "}", " ">> \o v \o <<", |n\"">>
        \o escape_braces(pre) \o escape_braces(sp) \o <<"|n\"">>

SayTextEscapedTemplate(v, pre, sp) ==
    escape_braces(<<"{", "char", "}", " ">>) \o escape_braces(v) \o <<", |n\"">>
        \o escape_braces(pre) \o escape_braces(sp) \o <<"|n\"">>

SayText(v, pre, sp) ==
    <<"{", "char", "}", " ">> \o escape_braces(v) \o <<", |n\"">>
        \o escape_braces(pre) \o escape_braces(sp) \o <<"|n\"">>

\* 'From inside you, %s %s, |n"%s%s|n"' % (char.get_display_name(here), ...)
SayInsideText(v, pre, sp) ==
    <<"From inside you, ">> \o NAME \o <<" ">> \o escape_braces(v) \o <<", |n\"">>
        \o escape_braces(pre) \o escape_braces(sp) \o <<"|n\"">>

\* The verb of a say that looks at no attribute.
VerbAlwaysSays(sv) == <<"says">>

\* verb = char.attributes.get('say-verb') if char.attributes.has('say-verb') else 'says'
VerbOf(sv) == IF sv.isNone THEN <<"says">> ELSE sv.v

\* prepend = say_prepend if say_prepend else '|w'
PrependOf(p) == IF p.isNone \/ p.v = <<>> THEN <<"|w">> ELSE p.v

\* char.attributes.add('say-verb', args): what the character keeps as its
\* say verb after say/verb, sv being what it kept before.
StoredVerbKept(sv, a) == sv

StoredVerb(sv, a) == Some(a)

\* CmdSay.func, as what it sends and leaves behind.
SayResult(opt, a0, e, sv, pre, hit) ==
    LET a == Strip(a0)
        sp == parse_say(a, hit)
        quiet == [out |-> <<>>, sayVerb |-> sv, speech |-> <<>>]
    IN  IF ~(e.here /\ e.char)
        THEN IF a # <<>>
             THEN [quiet EXCEPT !.out = <<Sent("execute_cmd", <<"pub ">> \o a, {}, FALSE)>>]
             ELSE [quiet EXCEPT !.out = <<Sent("sess.msg",
                       <<"Usage: say <message>   to speak on public channel.">>,
                       {}, FALSE)>>]
        ELSE IF a = <<>>
        THEN [quiet EXCEPT !.out = <<Sent("execute_cmd", <<"help say">>, {}, FALSE)>>]
        ELSE IF "verb" \in opt
        THEN [out |-> <<Sent("msg_contents", WarmUpText(a), {CharField}, FALSE)>>,
              sayVerb |-> StoredVerb(sv, a), speech |-> <<>>]
        ELSE IF "quote" \in opt
        THEN quiet
        ELSE IF "ooc" \in opt
        THEN [out |-> <<Sent("msg_contents", SayOocText(sp), {CharField}, FALSE)>>
                      \o (IF e.hasAccount
                          THEN <<Sent("here.msg", SayOocInsideText(sp), {}, FALSE)>>
                          ELSE <<>>),
              sayVerb |-> sv, speech |-> sp]
        ELSE [out |-> <<Sent("msg_contents",
                             SayText(VerbOf(sv), PrependOf(pre), sp),
                             {CharField}, FALSE)>>
                      \o (IF e.hasAccount
                          THEN <<Sent("here.msg",
                                      SayInsideText(VerbOf(sv), PrependOf(pre), sp),
                                      {}, FALSE)>>
                          ELSE <<>>),
              sayVerb |-> sv, speech |-> sp]

\* '[OOC {char}] %s' % escape_braces(args)
OocTextUnescaped(a) == <<"[OOC ", "{", "char", "}", "] ">> \o a

OocText(a) == <<"[OOC ", "{", "char", "}", "] ">> \o escape_braces(a)

\* '[OOC %s] %s' % (char.get_display_name(here), escape_braces(args))
OocInsideText(a) == <<"[OOC ">> \o NAME \o <<"] ">> \o escape_braces(a)

\* CmdOoc.func with the dispatch made on the argument as typed, not trimmed.
OocResultUntrimmed(a0, e) ==
    LET a == Strip(a0)
    IN  IF ~e.char
        THEN [err |-> "AttributeError", out |-> <<>>]
        ELSE IF a = <<>>
        THEN [err |-> "none", out |-> <<Sent("execute_cmd", <<"help ooc">>, {}, FALSE)>>]
        ELSE IF a0[1] \in {"\"", "'"}
        THEN [err |-> "none",
              out |-> <<Sent("execute_cmd", <<"say/o ">> \o Tail(a), {}, FALSE)>>]
        ELSE IF a0[1] \in {":", ";"}
        THEN [err |-> "none",
              out |-> <<Sent("execute_cmd", <<"pose/o ">> \o Tail(a), {}, FALSE)>>]
        ELSE IF ~e.here
        THEN [err |-> "AttributeError", out |-> <<>>]
        ELSE [err |-> "none",
              out |-> <<Sent("msg_contents", OocText(a), {CharField}, FALSE)>>
                      \o (IF e.hasAccount
                          THEN <<Sent("here.msg", OocInsideText(a), {}, FALSE)>>
                          ELSE <<>>)]

\* CmdOoc.func, as what it sends, and the exception it ends with.
OocResult(a0, e) ==
    LET a == Strip(a0)
    IN  IF ~e.char
        THEN [err |-> "AttributeError", out |-> <<>>]
        ELSE IF a = <<>>
        THEN [err |-> "none", out |-> <<Sent("execute_cmd", <<"help ooc">>, {}, FALSE)>>]
        ELSE IF a[1] \in {"\"", "'"}
        THEN [err |-> "none",
              out |-> <<Sent("execute_cmd", <<"say/o ">> \o Tail(a), {}, FALSE)>>]
        ELSE IF a[1] \in {":", ";"}
        THEN [err |-> "none",
              out |-> <<Sent("execute_cmd", <<"pose/o ">> \o Tail(a), {}, FALSE)>>]
        ELSE IF ~e.here
        THEN [err |-> "AttributeError", out |-> <<>>]
        ELSE [err |-> "none",
              out |-> <<Sent("msg_contents", OocText(a), {CharField}, FALSE)>>
                      \o (IF e.hasAccount
                          THEN <<Sent("here.msg", OocInsideText(a), {}, FALSE)>>
                          ELSE <<>>)]

(***************************************************************************)
(* CmdSpoof.func                                                           *)
(***************************************************************************)
MaxSpoofLen == 3
MaxRhsLen == 4
MaxLineLen == 2

\* settings.CLIENT_DEFAULT_WIDTH, the width justify takes when given none.
CLIENT_DEFAULT_WIDTH == 78

Spaces(n) == [i \in 1..n |-> SPACE]

\* The index of the first "=" in a, or 0.
FindEq(a) ==
    LET hits == {i \in 1..Len(a) : a[i] = "="}
    IN  IF hits = {} THEN 0 ELSE CHOOSE i \in hits : \A j \in hits : i <= j

\* self.lhs: everything to the left of the first "=", stripped; args when
\* there is no "=".
LhsOf(a) == IF FindEq(a) = 0 THEN a ELSE Strip(SubSeq(a, 1, FindEq(a) - 1))

\* self.rhs: everything to the right of the first "=", stripped; None when
\* there is no "=".
RhsOf(a) ==
    IF FindEq(a) = 0 THEN None ELSE Some(Strip(SubSeq(a, FindEq(a) + 1, Len(a))))

\* ansi.strip_ansi: "||" is a bar, a bar before a colour letter goes with it.
RECURSIVE strip_ansi(_)
strip_ansi(t) ==
    IF t = <<>> THEN <<>>
    ELSE IF Head(t) = "|" /\ Len(t) >= 2 /\ t[2] = "|"
    THEN <<"|">> \o strip_ansi(SubSeq(t, 3, Len(t)))
    ELSE IF Head(t) = "|" /\ Len(t) >= 2 /\ t[2] = "r"
    THEN strip_ansi(SubSeq(t, 3, Len(t)))
    ELSE <<Head(t)>> \o strip_ansi(Tail(t))

\* args.replace('|', '||')
RECURSIVE DoubleBars(_)
DoubleBars(t) ==
    IF t = <<>> THEN <<>>
    ELSE IF Head(t) = "|" THEN <<"|", "|">> \o DoubleBars(Tail(t))
    ELSE <<Head(t)>> \o DoubleBars(Tail(t))

\* re.sub("[^0123456789]", '', text)
RECURSIVE DigitsOf(_)
DigitsOf(t) ==
    IF t = <<>> THEN <<>>
    ELSE IF Head(t) \in {"0", "1", "2", "3", "4", "5", "6", "7", "8", "9"}
    THEN <<Head(t)>> \o DigitsOf(Tail(t))
    ELSE DigitsOf(Tail(t))

DigitValue(c) ==
    CASE c = "0" -> 0 [] c = "1" -> 1 [] c = "2" -> 2 [] c = "3" -> 3 [] c = "4" -> 4
      [] c = "5" -> 5 [] c = "6" -> 6 [] c = "7" -> 7 [] c = "8" -> 8 [] c = "9" -> 9

\* int(digits)
RECURSIVE IntOf(_)
IntOf(d) ==
    IF d = <<>> THEN 0 ELSE 10 * IntOf(SubSeq(d, 1, Len(d) - 1)) + DigitValue(d[Len(d)])

\* Python 2's a < b for two texts of digits: by the first character that
\* differs, the shorter first when one begins the other.
RECURSIVE StrLess(_, _)
StrLess(x, y) ==
    IF y = <<>> THEN FALSE
    ELSE IF x = <<>> THEN TRUE
    ELSE IF Head(x) = Head(y) THEN StrLess(Tail(x), Tail(y))
    ELSE DigitValue(Head(x)) < DigitValue(Head(y))

\* re.sub(...) or 0 leaves a text of digits, or the number 0 for no digit;
\* Python 2 orders every number before every text.  max(outside, inside)
\* and min(outside, inside) of two such values, then int() of each.
PyMaxNumeric(o, i) == IF IntOf(o) >= IntOf(i) THEN IntOf(o) ELSE IntOf(i)

PyMax(o, i) ==
    IF o = <<>> THEN IntOf(i)
    ELSE IF i = <<>> THEN IntOf(o)
    ELSE IF StrLess(o, i) THEN IntOf(i) ELSE IntOf(o)

PyMinNumeric(o, i) == IF IntOf(o) >= IntOf(i) THEN IntOf(i) ELSE IntOf(o)

PyMin(o, i) ==
    IF o = <<>> THEN 0
    ELSE IF i = <<>> THEN 0
    ELSE IF StrLess(i, o) THEN IntOf(i) ELSE IntOf(o)

\* The width and the inset the right/center/news branch passes to justify.
JustifyParams(rhs) ==
    IF ~rhs.isNone
    THEN LET parameters == IF rhs.v = <<>> THEN <<>> ELSE SplitWs(rhs.v)
         IN  IF Len(parameters) > 1
             THEN LET outside == DigitsOf(parameters[1])
                      inside == DigitsOf(parameters[2])
                  IN  [outside |-> PyMax(outside, inside),
                       inside |-> PyMin(outside, inside)]
             ELSE [outside |-> 72, inside |-> 20]
    ELSE [outside |-> 72, inside |-> IF 72 <= 20 THEN 72 ELSE 20]

\* The indent the indent branch takes.
IndentParam(rhs) ==
    IF ~rhs.isNone /\ rhs.v # <<>>
    THEN IF DigitsOf(rhs.v) = <<>> THEN 20 ELSE IntOf(DigitsOf(rhs.v))
    ELSE 20

\* evennia.utils.justify, the line of words `line` (wlen characters in the
\* words, ngaps gaps) laid out in `width` columns.
RECURSIVE JoinGap(_, _)
JoinGap(ws, gap) ==
    IF ws = <<>> THEN <<>>
    ELSE IF Len(ws) = 1 THEN ws[1]
    ELSE ws[1] \o gap \o JoinGap(Tail(ws), gap)

ProcessLine(line, wlen, ngaps, width, align) ==
    LET rest == width - (wlen + ngaps)
        n == IF ngaps > 1 THEN ngaps ELSE 1
    IN  IF rest <= 0 THEN JoinGap(line, <<SPACE>>)
        ELSE IF align = "r" THEN Spaces(rest) \o JoinGap(line, <<SPACE>>)
        ELSE IF align = "c"
        THEN Spaces(rest \div 2) \o JoinGap(line, <<SPACE>>)
                 \o Spaces(rest \div 2) \o Spaces(rest % 2)
        ELSE JoinGap([i \in 1..Len(line) |->
                         IF i <= rest % n THEN Append(line[i], SPACE) ELSE line[i]],
                     Spaces(1 + rest \div n))

\* The lines justify makes of the words: a word joins the line unless that
\* brings the line to the width.
RECURSIVE JustifyLines(_, _, _, _, _, _)
JustifyLines(words, line, wlen, ngaps, width, align) ==
    IF words = <<>>
    THEN IF line = <<>> THEN <<>> ELSE <<ProcessLine(line, wlen, ngaps, width, align)>>
    ELSE IF line = <<>>
    THEN JustifyLines(Tail(words), <<Head(words)>>, Len(Head(words)), 0, width, align)
    ELSE IF Len(Head(words)) + wlen + ngaps >= width
    THEN <<ProcessLine(line, wlen, ngaps, width, align)>>
             \o JustifyLines(words, <<>>, 0, 0, width, align)
    ELSE JustifyLines(Tail(words), Append(line, Head(words)),
                      wlen + Len(Head(words)), ngaps + 1, width, align)

\* justify(text, width, align, indent).split('\n'): the lines, each with the
\* indent before it; a text with no word gives one empty line.
justify(text, width, align, indent) ==
    LET w == IF width # 0 THEN width ELSE CLIENT_DEFAULT_WIDTH
        lines == JustifyLines(SplitWs(text), <<>>, 0, 0, w, align)
    IN  IF lines = <<>> THEN <<<<>>>>
        ELSE [i \in 1..Len(lines) |-> Spaces(indent) \o lines[i]]

\* self.raw: what was typed after the command name, switches and the space
\* around the args included.
RawOf(opt, a, lead, trail) ==
    (IF opt = {} THEN <<>> ELSE <<"/switches ">>)
        \o (IF lead THEN <<SPACE>> ELSE <<>>) \o a \o (IF trail THEN <<SPACE>> ELSE <<>>)

\* The text of each branch that goes to the room.
IndentText(a) == escape_braces(RStrip(a))

JustifiedText(line) == escape_braces(RStrip(line))

StripText(a) == escape_braces(RStrip(strip_ansi(a)))

RawTextEscaped(raw) == <<"<code>">> \o escape_braces(RStrip(raw)) \o <<"</code>">>

RawText(raw) == <<"<code>">> \o RStrip(raw) \o <<"</code>">>

PlainTextUnescaped(a) == RStrip(DoubleBars(a))

PlainText(a) == escape_braces(RStrip(DoubleBars(a)))

\* CmdSpoof.func, as what it sends, the calls it makes to justify, and the
\* exception it ends with.
SpoofResult(cs, opt, a0, e, lead, trail) ==
    LET to_self == "self" \in opt \/ ~e.here
        rhs == RhsOf(a0)
        sink == IF to_self THEN "char.msg" ELSE "msg_contents"
    IN  IF ~e.char
        THEN [err |-> "AttributeError", out |-> <<>>, justified |-> <<>>]
        ELSE IF a0 = <<>>
        THEN [err |-> "none", justified |-> <<>>,
              out |-> <<Sent("execute_cmd", <<"help spoof">>, {}, FALSE)>>]
        ELSE IF "indent" \in opt
        THEN LET a == IF ~rhs.isNone /\ rhs.v # <<>> THEN Strip(LhsOf(a0)) ELSE a0
                 n == IndentParam(rhs)
             IN  [err |-> "none", justified |-> <<>>,
                  out |-> <<Padded(sink, n,
                                   IF to_self THEN RStrip(a) ELSE IndentText(a),
                                   {}, FALSE)>>]
        ELSE IF opt \cap {"right", "center", "news"} # {}
        THEN LET a == IF ~rhs.isNone THEN Strip(LhsOf(a0)) ELSE a0
                 p == JustifyParams(rhs)
                 block == IF "center" \in opt THEN "c"
                          ELSE IF "right" \in opt THEN "r" ELSE "f"
                 lines == justify(a, p.outside, block, p.inside)
             IN  [err |-> "none",
                  justified |-> <<[width |-> p.outside, align |-> block,
                                   indent |-> p.inside]>>,
                  out |-> [i \in 1..Len(lines) |->
                              Sent(sink,
                                   IF to_self THEN RStrip(lines[i])
                                   ELSE JustifiedText(lines[i]), {}, FALSE)]]
        ELSE IF "strip" \in opt
        THEN [err |-> "none", justified |-> <<>>,
              out |-> <<Sent(sink,
                             IF to_self THEN RStrip(strip_ansi(a0)) ELSE StripText(a0),
                             {}, TRUE)>>]
        ELSE IF cs = "."
        THEN [err |-> "none", justified |-> <<>>,
              out |-> <<Sent(sink, RawText(RawOf(opt, a0, lead, trail)), {}, TRUE)>>]
        ELSE [err |-> "none", justified |-> <<>>,
              out |-> <<Sent(sink, IF to_self THEN RStrip(a0) ELSE PlainText(a0),
                             {}, FALSE)>>]

SpoofAlphabet == {"r", "{", "}", "|", SPACE, "="}

RhsAlphabet == {"1", "2", SPACE, "x"}

LineAlphabet == {"r", SPACE}

\* The args of a spoof: short texts with markup in them, a word with
\* parameters after "=", and texts of two lines.
SpoofArgs ==
    {s \in TextsUpTo(SpoofAlphabet, MaxSpoofLen) : Strip(s) = s}
        \cup {s \in {<<"r", "=">> \o r : r \in TextsUpTo(RhsAlphabet, MaxRhsLen)} :
                 Strip(s) = s}
        \cup {s \in {a \o <<NL>> \o b : a \in TextsUpTo(LineAlphabet, MaxLineLen),
                                         b \in TextsUpTo(LineAlphabet, MaxLineLen)} :
                 Strip(s) = s}

SpoofSwitches ==
    {{}, {"self"}, {"strip"}, {"strip", "self"}, {"indent"}, {"indent", "self"},
     {"right"}, {"center"}, {"news"}, {"center", "self"}, {"right", "center"}}

SpoofFunc ==
    /\ pc = "start"
    /\ cmdname = "spoof"
    /\ \E lead \in BOOLEAN, trail \in BOOLEAN :
         LET r == SpoofResult(cmdstring, switches, input, env, lead, trail)
         IN  /\ out' = r.out
             /\ justified' = r.justified
             /\ error' = r.err
    /\ pc' = "done"
    /\ UNCHANGED <<cmdname, cmdstring, switches, input, args, env, sayVerb, prepend,
                   speech>>
    /\ UNCHANGED poseVars
    /\ UNCHANGED worldVars

\* The callers there can be: with no character; with a character that is
\* nowhere; with a character in a place, which may have an account itself.
Envs ==
    {e \in [char : BOOLEAN, here : BOOLEAN, hasAccount : BOOLEAN] :
        /\ e.here => e.char
        /\ e.hasAccount => e.here}

SayAlphabet == {"char", "{", "}", SPACE, "/", "."}

SayArgs == {s \in TextsUpTo(SayAlphabet, MaxSayLen) : Strip(s) = s}

SaySwitches == {{}, {"ooc"}, {"verb"}, {"quote"}}

\* The say verbs a character can have: none, or what say/verb stored.
SayVerbs == {None, Some(<<"growls">>), Some(<<"{", "char", "}">>), Some(<<"}">>)}

Prepends == {None, Some(<<"{", "char", "}">>)}

SayFunc ==
    /\ pc = "start"
    /\ cmdname = "say"
    /\ \E hit \in BOOLEAN :
         LET r == SayResult(switches, input, env, sayVerb, prepend, hit)
         IN  /\ out' = r.out
             /\ sayVerb' = r.sayVerb
             /\ speech' = r.speech
    /\ pc' = "done"
    /\ UNCHANGED <<cmdname, cmdstring, switches, input, args, error, env, prepend,
                   justified>>
    /\ UNCHANGED poseVars
    /\ UNCHANGED worldVars

OocFunc ==
    /\ pc = "start"
    /\ cmdname = "ooc"
    /\ LET r == OocResult(input, env)
       IN  /\ out' = r.out
           /\ error' = r.err
    /\ pc' = "done"
    /\ UNCHANGED <<cmdname, cmdstring, switches, input, args, env, sayVerb, prepend,
                   speech, justified>>
    /\ UNCHANGED poseVars
    /\ UNCHANGED worldVars

InitSayFamily ==
    /\ pc = "start"
    /\ \/ /\ cmdname = "say"
          /\ cmdstring = "say"
          /\ switches \in SaySwitches
          /\ input \in SayArgs
          /\ sayVerb \in SayVerbs
          /\ prepend \in Prepends
       \/ /\ cmdname = "ooc"
          /\ cmdstring = "ooc"
          /\ switches = {}
          /\ input \in SayArgs
          /\ sayVerb = None
          /\ prepend = None
       \/ /\ cmdname = "spoof"
          /\ cmdstring \in {"spoof", "."}
          /\ switches \in SpoofSwitches
          /\ input \in SpoofArgs
          /\ sayVerb = None
          /\ prepend = None
    /\ env \in Envs
    /\ args = input
    /\ verb = None
    /\ obj = "None"
    /\ searched = <<>>
    /\ error = "none"
    /\ speech = <<>>
    /\ out = <<>>
    /\ justified = <<>>
    /\ WorldInit

NextSayFamily == SayFunc \/ OocFunc \/ SpoofFunc

SpecSay == InitSayFamily /\ [][NextSayFamily]_vars


(***************************************************************************)
(* The claims about what say, ooc and spoof hand to the room.              *)
(***************************************************************************)
Done(c) == cmdname = c /\ pc = "done" /\ error = "none"

\* The texts handed to the broadcast sink (msg_contents), in order.
Broadcasts == {i \in DOMAIN out : out[i].sink = "msg_contents"}

\* The placeholders a text refers to, read as a template: the name between
\* a single "{" and the next "}"; a "{" that nothing closes names nothing.
RECURSIVE Placeholders(_)
Placeholders(t) ==
    LET braces == {i \in 1..Len(t) : t[i] \in {"{", "}"}}
    IN  IF braces = {} THEN {}
        ELSE LET b == CHOOSE i \in braces : \A k \in braces : i <= k
                 u == SubSeq(t, b, Len(t))
                 closes == {i \in 2..Len(u) : u[i] = "}"}
             IN  IF Len(u) >= 2 /\ u[2] = u[1]
                 THEN Placeholders(SubSeq(u, 3, Len(u)))
                 ELSE IF u[1] = "{" /\ closes # {}
                 THEN LET j == CHOOSE i \in closes : \A k \in closes : i <= k
                      IN  {SubSeq(u, 2, j - 1)}
                              \cup Placeholders(SubSeq(u, j + 1, Len(u)))
                 ELSE Placeholders(Tail(u))

\* What the room is to read: the template's own text with the display name
\* in place of {char}, and every value of the user as the user gave it.
ExpectedSay ==
    IF "verb" \in switches
    THEN NAME \o <<" warms up vocally with \"">> \o Strip(input) \o <<"|n\"">>
    ELSE IF "ooc" \in switches
    THEN <<"[OOC] ">> \o NAME \o <<" says, |n\"|w">> \o speech \o <<"|n\"">>
    ELSE NAME \o <<" ">> \o (IF sayVerb.isNone THEN <<"says">> ELSE sayVerb.v)
             \o <<", |n\"">> \o (IF prepend.isNone THEN <<"|w">> ELSE prepend.v)
             \o speech \o <<"|n\"">>

ExpectedOoc == <<"[OOC ">> \o NAME \o <<"] ">> \o Strip(input)

\* C8: in say and ooc broadcasts every value of the user is escaped before
\* it goes into the template and the template's own text is not, so the
\* room reads the user's braces as typed and {char} as the display name: no
\* brace of the user acts as a placeholder.
C8_UserTextIsEscaped ==
    /\ Done("say") =>
          \A i \in Broadcasts :
              /\ out[i].mapping = {CharField}
              /\ Rendered(out[i]) = [err |-> "none", text |-> ExpectedSay]
    /\ Done("ooc") =>
          \A i \in Broadcasts :
              /\ out[i].mapping = {CharField}
              /\ Rendered(out[i]) = [err |-> "none", text |-> ExpectedOoc]

C8_Witness ==
    /\ Done("say") /\ switches = {}
    /\ speech = <<"{", "char", "}">>
    /\ sayVerb = Some(<<"}">>)
    /\ prepend = Some(<<"{", "char", "}">>)
    /\ Broadcasts = {1}
    /\ Rendered(out[1]).text =
          <<"NAME", " ", "}", ", |n\"", "{", "char", "}", "{", "char", "}", "|n\"">>

\* The branch of spoof that sends self.raw: under the name ".", with none of
\* the switches that choose another branch.
RawSpoof ==
    /\ cmdname = "spoof"
    /\ cmdstring = "."
    /\ switches \cap {"indent", "right", "center", "news", "strip"} = {}

\* C9 as stated: every placeholder of a text handed to the broadcast sink is
\* bound, or rendering fails; this in every branch of say, ooc and spoof.
C9_EveryPlaceholderBound ==
    pc = "done" =>
        \A i \in Broadcasts :
            \/ Placeholders(out[i].text) \subseteq out[i].mapping
            \/ Rendered(out[i]).err # "none"

\* C9, amended: in say and ooc the one placeholder of a text handed to the
\* broadcast sink is {char}, which is bound, and rendering does not fail; a
\* spoof hands its text with no binding, and with its braces doubled, so
\* that it holds no placeholder, in every branch but the raw "." spoof,
\* which hands the text as typed: a placeholder typed there is handed on
\* unbound.
C9_PlaceholdersBoundButInRawSpoof ==
    /\ (Done("say") \/ Done("ooc")) =>
          \A i \in Broadcasts :
              /\ Placeholders(out[i].text) = {CharField}
              /\ out[i].mapping = {CharField}
              /\ Rendered(out[i]).err = "none"
    /\ Done("spoof") =>
          \A i \in Broadcasts :
              /\ out[i].mapping = {}
              /\ Rendered(out[i]) = [err |-> "none", text |-> out[i].text]
              /\ IF RawSpoof
                 THEN Placeholders(out[i].text) = Placeholders(input)
                 ELSE Placeholders(out[i].text) = {}

C9_Witness ==
    /\ Done("spoof") /\ cmdstring = "spoof" /\ switches = {}
    /\ input = <<"{", "r", "}">>
    /\ Broadcasts = {1}
    /\ out[1].text = <<"{", "{", "r", "}", "}">>

\* The parameters after "=", as the caller gave them.
GivenParams == IF FindEq(input) = 0 THEN <<>> ELSE SplitWs(RhsOf(input).v)

\* C10: for spoof with /right, /center or /news the width defaults to 72
\* and the inset to 20, and whatever pair the caller gives, the values
\* passed to justify have inset <= width.
C10_InsetWithinWidth ==
    Done("spoof") =>
        \A i \in DOMAIN justified :
            /\ Len(GivenParams) < 2 =>
                  (justified[i].width = 72 /\ justified[i].indent = 20)
            /\ justified[i].indent <= justified[i].width

\* What is left of a parameter after every non-digit is taken out, or the
\* default when nothing is left.
Sanitized(p, default) == IF DigitsOf(p) = <<>> THEN default ELSE IntOf(DigitsOf(p))

\* C11: the numbers of a spoof given as free text are what is left after
\* every non-digit is taken out, and the default of the mode (20 for the
\* indent, 72 for the width, 20 for the inset) when nothing is left; the
\* command does not fail.  The pair of justify is compared as a pair without
\* order, the order being the matter of C10.
C11_SanitizedOrDefault ==
    (cmdname = "spoof" /\ pc = "done" /\ env.char /\ input # <<>>) =>
        /\ error = "none"
        /\ ("indent" \in switches /\ FindEq(input) # 0 /\ RhsOf(input).v # <<>>) =>
              \A i \in DOMAIN out : out[i].pad = Sanitized(RhsOf(input).v, 20)
        /\ Len(GivenParams) >= 2 =>
              \A i \in DOMAIN justified :
                  {justified[i].width, justified[i].indent}
                      = {Sanitized(GivenParams[1], 72), Sanitized(GivenParams[2], 20)}

\* The text one sent thing delivers, the spaces before it included.
Delivered(d) == Spaces(d.pad) \o d.text

\* The newline-delimited lines of a text.
LinesOf(t) ==
    LET nls == {i \in 1..Len(t) : t[i] = NL}
        cuts == {0} \cup nls \cup {Len(t) + 1}
        next(i) == CHOOSE j \in cuts : j > i /\ \A k \in cuts : k > i => j <= k
    IN  {SubSeq(t, i + 1, next(i) - 1) : i \in cuts \ {Len(t) + 1}}

\* C12: in every branch of spoof (indent, right/center/news, strip, the raw
\* ".", plain) each newline-delimited line of the text delivered has no
\* whitespace at its end.
C12_EveryLineStripped ==
    Done("spoof") =>
        \A i \in DOMAIN out :
            out[i].sink \in {"char.msg", "msg_contents"} =>
                \A line \in LinesOf(Delivered(out[i])) : RStrip(line) = line

(***************************************************************************)
(* One caller, command after command.  Each call runs on a command object  *)
(* of its own; what the character keeps (the say verb) stays.              *)
(***************************************************************************)
MaxCalls == 3

\* The requests the caller repeats: none of them makes a search.
SessionRequests ==
    {[cmdname |-> "say", cmdstring |-> "say", switches |-> {}, args |-> <<"char">>],
     [cmdname |-> "say", cmdstring |-> "say", switches |-> {"verb"},
      args |-> <<"growls">>],
     [cmdname |-> "say", cmdstring |-> "say", switches |-> {"verb"},
      args |-> <<"purrs">>],
     [cmdname |-> "say", cmdstring |-> "say", switches |-> {"ooc"}, args |-> <<"char">>],
     [cmdname |-> "ooc", cmdstring |-> "ooc", switches |-> {}, args |-> <<"char">>],
     [cmdname |-> "spoof", cmdstring |-> "spoof", switches |-> {}, args |-> <<"r">>],
     [cmdname |-> "pose", cmdstring |-> "pose", switches |-> {}, args |-> <<"a">>]}

\* The call in hand: what was asked, what came of it, and the say verb the
\* character keeps after it.
Request ==
    [cmdname |-> cmdname, cmdstring |-> cmdstring, switches |-> switches, args |-> input]

Output == [out |-> out, error |-> error, args |-> args, verb |-> verb, obj |-> obj]

ThisCall == [request |-> Request, output |-> Output, after |-> sayVerb]

\* The dispatcher takes the caller's next command: the call in hand joins
\* the log and a fresh command object gets the new request.
NextCommand ==
    /\ pc \in {"parsed", "done"}
    /\ Len(log) < MaxCalls - 1
    /\ log' = Append(log, ThisCall)
    /\ \E r \in SessionRequests :
         /\ cmdname' = r.cmdname
         /\ cmdstring' = r.cmdstring
         /\ switches' = r.switches
         /\ input' = r.args
         /\ args' = r.args
    /\ pc' = "start"
    /\ verb' = None
    /\ obj' = "None"
    /\ searched' = <<>>
    /\ error' = "none"
    /\ speech' = <<>>
    /\ out' = <<>>
    /\ justified' = <<>>
    /\ UNCHANGED <<env, sayVerb, prepend, mux, laterVars>>

InitSession ==
    /\ pc = "start"
    /\ \E r \in SessionRequests :
         /\ cmdname = r.cmdname
         /\ cmdstring = r.cmdstring
         /\ switches = r.switches
         /\ input = r.args
         /\ args = r.args
    /\ env \in {e \in Envs : e.here}
    /\ sayVerb \in {None, Some(<<"growls">>), Some(<<"purrs">>)}
    /\ prepend = None
    /\ verb = None
    /\ obj = "None"
    /\ searched = <<>>
    /\ error = "none"
    /\ speech = <<>>
    /\ out = <<>>
    /\ justified = <<>>
    /\ WorldInit

NextSession == PoseParse \/ SayFunc \/ OocFunc \/ SpoofFunc \/ NextCommand

SpecSession == InitSession /\ [][NextSession]_vars

\* The calls handled so far, the one in hand included once it is over.
Calls == IF pc \in {"parsed", "done"} THEN Append(log, ThisCall) ELSE log

IsSayVerb(r) == r.cmdname = "say" /\ "verb" \in r.switches

LeadingSpaces(t) == Len(t) - Len(LStrip(t))

\* The width justify lays the lines out in.
WidthUsed(j) == IF j.width # 0 THEN j.width ELSE CLIENT_DEFAULT_WIDTH

\* C14: for spoof/center with width W every line delivered is at most W
\* long, and the padding to its left and the padding that is left to its
\* right within W differ by at most one character.
C14_CenteredWithinWidth ==
    (Done("spoof") /\ "center" \in switches /\ justified # <<>>) =>
        \A i \in DOMAIN out :
            LET line == Delivered(out[i])
                W == WidthUsed(justified[1])
                left == LeadingSpaces(line)
                right == W - Len(line)
            IN  line # <<>> =>
                    /\ Len(line) <= W
                    /\ left - right <= 1
                    /\ right - left <= 1

(***************************************************************************)
(* MuxCommand.parse: what the command handler hands over as self.args (the *)
(* text after the command name) is taken apart into raw, switches, args,   *)
(* lhs and rhs.                                                            *)
(***************************************************************************)
MaxRawLen == 5

\* s.split(c): the pieces of s between the occurrences of c.
RECURSIVE SplitOn(_, _, _)
SplitOn(s, c, cur) ==
    IF s = <<>> THEN <<cur>>
    ELSE IF Head(s) = c THEN <<cur>> \o SplitOn(Tail(s), c, <<>>)
    ELSE SplitOn(Tail(s), c, Append(cur, Head(s)))

\* s.split(None, 1): the first word of s and, if there is more, the rest
\* from the second word on.
SplitFirstWord(s) ==
    LET t == LStrip(s)
        ws == {i \in 1..Len(t) : t[i] \in Whitespace}
    IN  IF t = <<>> THEN <<>>
        ELSE IF ws = {} THEN <<t>>
        ELSE LET k == CHOOSE i \in ws : \A j \in ws : i <= j
                 rest == LStrip(SubSeq(t, k, Len(t)))
             IN  IF rest = <<>> THEN <<SubSeq(t, 1, k - 1)>>
                 ELSE <<SubSeq(t, 1, k - 1), rest>>

\* Whether the switches are looked for: the text is more than one character
\* and begins with "/".  Releases of the library differ in whether the text
\* as given or the stripped text must begin with it.
HasSwitches(raw, stripped, release) ==
    /\ stripped # <<>>
    /\ Len(stripped) > 1
    /\ IF release = "raw" THEN raw[1] = "/" ELSE stripped[1] = "/"

\* args once the switches are taken off.
MuxArgsUnstripped(raw, release) == raw

MuxArgs(raw, release) ==
    LET stripped == Strip(raw)
    IN  IF HasSwitches(raw, stripped, release)
        THEN LET parts == SplitFirstWord(Tail(stripped))
             IN  IF Len(parts) > 1 THEN Strip(parts[2]) ELSE <<>>
        ELSE stripped

MuxSwitches(raw, release) ==
    LET stripped == Strip(raw)
    IN  IF HasSwitches(raw, stripped, release)
        THEN SplitOn(SplitFirstWord(Tail(stripped))[1], "/", <<>>)
        ELSE <<>>

\* if args and '=' in args
MuxHasEqAfterText(a) == FindEq(a) > 1

MuxHasEq(a) == FindEq(a) # 0

MuxLhs(a) == IF MuxHasEq(a) THEN LhsOf(a) ELSE a

MuxRhs(a) == IF MuxHasEq(a) THEN RhsOf(a) ELSE None

MuxRawStripped(raw) == Strip(raw)

MuxRaw(raw) == raw

MuxResult(raw, release) ==
    [raw |-> MuxRaw(raw),
     switches |-> MuxSwitches(raw, release),
     args |-> MuxArgs(raw, release),
     lhs |-> MuxLhs(MuxArgs(raw, release)),
     rhs |-> MuxRhs(MuxArgs(raw, release))]

MuxAlphabet == {"a", "/", "=", SPACE}

RawInputs == TextsUpTo(MuxAlphabet, MaxRawLen)

Releases == {"raw", "stripped"}

MuxParse ==
    /\ pc = "start"
    /\ cmdname = "mux"
    /\ \E release \in Releases : mux' = MuxResult(input, release)
    /\ pc' = "parsed"
    /\ UNCHANGED <<cmdname, cmdstring, switches, input, args, error, log, laterVars>>
    /\ UNCHANGED poseVars
    /\ UNCHANGED sayVars

InitMux ==
    /\ pc = "start"
    /\ cmdname = "mux"
    /\ cmdstring = "mux"
    /\ switches = {}
    /\ input \in RawInputs
    /\ args = input
    /\ verb = None
    /\ obj = "None"
    /\ searched = <<>>
    /\ error = "none"
    /\ env = NoEnv
    /\ sayVerb = None
    /\ prepend = None
    /\ speech = <<>>
    /\ out = <<>>
    /\ justified = <<>>
    /\ WorldInit

NextMux == MuxParse

SpecMux == InitMux /\ [][NextMux]_vars

MuxParsed == cmdname = "mux" /\ pc = "parsed"

\* C15: on every parsed command line rhs is None exactly when there is no
\* "=" in args, and when rhs is None lhs is args itself.
C15_RhsNoneIffNoEquals ==
    MuxParsed =>
        /\ mux.rhs.isNone <=> (\A i \in DOMAIN mux.args : mux.args[i] # "=")
        /\ mux.rhs.isNone => mux.lhs = mux.args

C15_Witness ==
    /\ MuxParsed
    /\ input = <<"/", "a", SPACE, "a", "=">>
    /\ mux.args = <<"a", "=">>
    /\ mux.lhs = <<"a">>
    /\ mux.rhs = Some(<<>>)

\* The words of the input that begin with "/".
SlashTokens(t) == {i \in DOMAIN SplitWs(t) : SplitWs(t)[i][1] = "/"}

\* C16: when no word of the input begins with "/", the switches are empty
\* and args is the input with the whitespace at its ends taken off; raw is
\* always the whole input as given, switches included.
C16_NoSlashNoSwitches ==
    MuxParsed =>
        /\ SlashTokens(input) = {} => (mux.switches = <<>> /\ mux.args = Strip(input))
        /\ mux.raw = input

C16_Witness ==
    /\ MuxParsed
    /\ input = <<SPACE, "a", "/", "a", SPACE>>
    /\ mux.switches = <<>>
    /\ mux.args = <<"a", "/", "a">>
    /\ mux.raw = input

(***************************************************************************)
(* CmdQuit.func                                                            *)
(***************************************************************************)
MaxSessions == 5

SessionIds == 1..MaxSessions

BYE == "|RDisconnecting|n"

EXIT_MSG == "Hope to see you again, soon."

\* player.disconnect_session_from_player(session) for each session of the
\* list player.sessions.all(), one after the other.
RECURSIVE DisconnectEach(_, _)
DisconnectEach(connected, todo) ==
    IF todo = {} THEN connected
    ELSE LET session == CHOOSE x \in todo : TRUE
         IN  DisconnectEach(connected \ {session}, todo \ {session})

\* What the invoking session is told.
QuitMsg(all, nsess) ==
    IF all THEN <<BYE, " all sessions. ", EXIT_MSG>>
    ELSE IF nsess = 2 THEN <<BYE, ". One session is still connected.">>
    ELSE IF nsess > 2 THEN <<BYE, ". ", nsess - 1, " sessions are still connected.">>
    ELSE <<BYE, ". ", EXIT_MSG>>

QuitAllKeepsCaller(connected, session, all) ==
    IF all THEN {session} ELSE connected \ {session}

QuitOnlyLast(connected, session, all) ==
    IF all THEN {} ELSE IF Cardinality(connected) > 1 THEN connected ELSE {}

\* The player's sessions after CmdQuit.func, called from `session`.
AfterQuit(connected, session, all) ==
    IF all THEN DisconnectEach(connected, connected)
    ELSE DisconnectEach(connected, {session})

\* A session of the player logs in.
Connect ==
    /\ \E session \in SessionIds \ sessions : sessions' = sessions \cup {session}
    /\ quit' = NoQuit
    /\ UNCHANGED <<cmdVars, poseVars, sayVars, log, mux, surfaceVars, detailVars,
                   inlineVars>>

\* CmdQuit.func, called from one of the connected sessions, with the switch
\* /all or without.
CmdQuit ==
    /\ \E session \in sessions, all \in BOOLEAN :
         /\ sessions' = AfterQuit(sessions, session, all)
         /\ quit' = [session |-> session, all |-> all, before |-> sessions,
                     msg |-> QuitMsg(all, Cardinality(sessions))]
    /\ UNCHANGED <<cmdVars, poseVars, sayVars, log, mux, surfaceVars, detailVars,
                   inlineVars>>

InitQuit ==
    /\ CmdIdle
    /\ log = <<>>
    /\ mux = Unparsed
    /\ sessions \in SUBSET SessionIds
    /\ quit = NoQuit
    /\ SurfaceIdle
    /\ DetailIdle
    /\ InlineIdle

NextQuit == Connect \/ CmdQuit

SpecQuit == InitQuit /\ [][NextQuit]_vars

\* C17: @quit without a switch disconnects the invoking session and no
\* other; @quit/all disconnects every session of the player, who has none
\* afterwards.
C17_QuitOneOrAll ==
    quit # NoQuit =>
        /\ ~quit.all =>
              /\ quit.session \notin sessions
              /\ \A other \in quit.before \ {quit.session} : other \in sessions
              /\ sessions \subseteq quit.before
        /\ quit.all => sessions = {}

C17_Witness ==
    /\ quit # NoQuit
    /\ ~quit.all
    /\ quit.before = SessionIds
    /\ sessions = SessionIds \ {quit.session}

(***************************************************************************)
(* Object.surface_put, Object.surface_off and Object.at_before_move.  An   *)
(* attribute that holds a dict is a record: whether the object has the     *)
(* attribute, and the dict as a function.                                  *)
(***************************************************************************)
Connections == {"on"}

Dict(f) == [has |-> TRUE, map |-> f]

\* d[k] = v
DictSet(f, k, v) == [x \in DOMAIN f \cup {k} |-> IF x = k THEN v ELSE f[x]]

\* del d[k]
DictDel(f, k) == [x \in DOMAIN f \ {k} |-> f[x]]

\* at_before_move: False when the object has the attribute 'locked'.
at_before_move(isLocked, self) == IF self \in isLocked THEN FALSE ELSE TRUE

\* surface_put(pose, caller, connection) on self: the attributes after it
\* and what it returns.
surface_put(surf, isLocked, self, caller, connection) ==
    LET made == IF ~surf[self].has THEN [surf EXCEPT ![self] = Dict(<<>>)] ELSE surf
    IN  IF caller \in DOMAIN made[self].map
        THEN [surface |-> made, locked |-> isLocked, result |-> "False"]
        ELSE [surface |-> [made EXCEPT ![self] =
                               Dict(DictSet(made[self].map, caller, connection))],
              locked |-> isLocked \cup {self} \cup {caller},
              result |-> "True"]

\* surface_off(pose, caller) on self.  Without the attribute 'surface' the
\* test `caller in surface` is made on None and raises.
surface_off(surf, isLocked, self, caller) ==
    IF ~surf[self].has
    THEN [surface |-> surf, locked |-> isLocked, result |-> "TypeError"]
    ELSE IF caller \in DOMAIN surf[self].map
    THEN LET left == DictDel(surf[self].map, caller)
             unlocked == IF Cardinality(DOMAIN left) < 1 THEN isLocked \ {self}
                         ELSE isLocked
         IN  [surface |-> [surf EXCEPT ![self] = Dict(left)],
              locked |-> unlocked \ {caller},
              result |-> "True"]
    ELSE [surface |-> surf, locked |-> isLocked, result |-> "False"]

SurfacePut ==
    /\ \E self \in Objects, caller \in Objects, connection \in Connections :
         LET r == surface_put(surface, locked, self, caller, connection)
         IN  /\ surface' = r.surface
             /\ locked' = r.locked
             /\ surfaceOp' = [op |-> "surface_put", self |-> self, caller |-> caller,
                              result |-> r.result]
    /\ UNCHANGED <<cmdVars, poseVars, sayVars, log, mux, quitVars, detailVars,
                   inlineVars>>

SurfaceOff ==
    /\ \E self \in Objects, caller \in Objects :
         LET r == surface_off(surface, locked, self, caller)
         IN  /\ surface' = r.surface
             /\ locked' = r.locked
             /\ surfaceOp' = [op |-> "surface_off", self |-> self, caller |-> caller,
                              result |-> r.result]
    /\ UNCHANGED <<cmdVars, poseVars, sayVars, log, mux, quitVars, detailVars,
                   inlineVars>>

InitSurface ==
    /\ CmdIdle
    /\ log = <<>>
    /\ mux = Unparsed
    /\ QuitIdle
    /\ SurfaceIdle
    /\ DetailIdle
    /\ InlineIdle

NextSurface == SurfacePut \/ SurfaceOff

SpecSurface == InitSurface /\ [][NextSurface]_vars

\* The objects that support something: their surface mapping is not empty.
Supporting == {o \in Objects : surface[o].has /\ DOMAIN surface[o].map # {}}

\* C18: after any surface_put and surface_off calls, over any objects and
\* callers, at_before_move returns False for every object whose surface
\* mapping is not empty.
C18_SupportingCannotMove ==
    \A o \in Supporting : at_before_move(locked, o) = FALSE

(***************************************************************************)
(* Object.set_detail and Object.return_detail                              *)
(***************************************************************************)
\* str.lower(), character by character.
LowerIdentity(c) == c

LowerChar(c) == CASE c = "A" -> "a" [] c = "B" -> "b" [] OTHER -> c

Lower(k) == [i \in DOMAIN k |-> LowerChar(k[i])]

\* `if self.db.details:` -- there is the attribute and the dict is not empty.
Truthy(d) == d.has /\ DOMAIN d.map # {}

\* set_detail(detailkey, description): the attribute 'details' after it.
set_detail(d, detailkey, description) ==
    IF Truthy(d)
    THEN Dict(DictSet(d.map, Lower(detailkey), description))
    ELSE Dict(DictSet(<<>>, Lower(detailkey), description))

\* return_detail(detailkey): details.get(detailkey.lower(), None), and None
\* when there are no details.
return_detail(d, detailkey) ==
    IF Truthy(d)
    THEN IF Lower(detailkey) \in DOMAIN d.map THEN Some(d.map[Lower(detailkey)])
         ELSE None
    ELSE None

DetailKeys == {<<"a">>, <<"A">>, <<"b">>, <<"a", "B">>, <<"A", "b">>, <<"a", "1">>}

Descriptions == {<<"d1">>, <<"d2">>}

SetDetail ==
    /\ \E detailkey \in DetailKeys, description \in Descriptions :
         /\ details' = set_detail(details, detailkey, description)
         /\ detailOp' = [op |-> "set_detail", key |-> detailkey,
                         description |-> description, result |-> None]
         /\ everSet' = everSet \cup {detailkey}
    /\ UNCHANGED <<cmdVars, poseVars, sayVars, log, mux, quitVars, surfaceVars,
                   inlineVars>>

ReturnDetail ==
    /\ \E detailkey \in DetailKeys :
         detailOp' = [op |-> "return_detail", key |-> detailkey, description |-> <<>>,
                      result |-> return_detail(details, detailkey)]
    /\ UNCHANGED <<details, everSet>>
    /\ UNCHANGED <<cmdVars, poseVars, sayVars, log, mux, quitVars, surfaceVars,
                   inlineVars>>

InitDetail ==
    /\ CmdIdle
    /\ log = <<>>
    /\ mux = Unparsed
    /\ QuitIdle
    /\ SurfaceIdle
    /\ DetailIdle
    /\ InlineIdle

NextDetail == SetDetail \/ ReturnDetail

SpecDetail == InitDetail /\ [][NextDetail]_vars

\* Equal ignoring case: the same once every letter is a capital.
UpperChar(c) == CASE c = "a" -> "A" [] c = "b" -> "B" [] OTHER -> c

CaseEq(k1, k2) ==
    /\ Len(k1) = Len(k2)
    /\ \A i \in DOMAIN k1 : UpperChar(k1[i]) = UpperChar(k2[i])

\* C19: after set_detail(k, d), return_detail gives d for every key equal to
\* k ignoring case, and for every other key what it gave before; and it
\* gives None for a key that was never set, whatever its case.
C19_DetailsRoundTrip ==
    /\ [](\A k \in DetailKeys :
             (\A given \in everSet : ~CaseEq(k, given)) =>
                 return_detail(details, k) = None)
    /\ [][detailOp'.op = "set_detail" =>
             \A k \in DetailKeys :
                 IF CaseEq(k, detailOp'.key)
                 THEN return_detail(details', k) = Some(detailOp'.description)
                 ELSE return_detail(details', k) = return_detail(details, k)]_vars

C19_Witness ==
    /\ detailOp.op = "return_detail"
    /\ detailOp.key = <<"A", "b">>
    /\ detailOp.result = Some(<<"d2">>)
    /\ everSet = {<<"a">>, <<"a", "B">>}
    /\ return_detail(details, <<"A">>) = Some(<<"d1">>)

(***************************************************************************)
(* inlinefuncs.annotate                                                    *)
(***************************************************************************)
MaxInlineLen == 2

\* annotate(text, *args, session=session): what the session is shown.
annotate(text, arguments, screenreader) ==
    LET nargs == Len(arguments)
        annotation == IF nargs > 0 THEN arguments[1] ELSE <<>>
        original == IF nargs > 0 THEN text ELSE <<>>
    IN  IF screenreader THEN annotation ELSE original

InlineTexts == TextsUpTo({"x", "y"}, MaxInlineLen)

\* What comes after the original in $annotate(...): nothing, an annotation,
\* or an annotation and one thing more.
InlineArguments == UNION {[1..n -> InlineTexts] : n \in 0..2}

Annotate ==
    /\ inline.op = "pending"
    /\ inline' = [inline EXCEPT !.op = "annotate",
                                !.shown = annotate(inline.text, inline.arguments,
                                                   inline.screenreader)]
    /\ UNCHANGED <<cmdVars, poseVars, sayVars, log, mux, quitVars, surfaceVars,
                   detailVars>>

InitInline ==
    /\ CmdIdle
    /\ log = <<>>
    /\ mux = Unparsed
    /\ QuitIdle
    /\ SurfaceIdle
    /\ DetailIdle
    /\ \E text \in InlineTexts, arguments \in InlineArguments, screenreader \in BOOLEAN :
         inline = [op |-> "pending", text |-> text, arguments |-> arguments,
                   screenreader |-> screenreader, shown |-> <<>>]

NextInline == Annotate

SpecInline == InitInline /\ [][NextInline]_vars

\* C20: a session that is not a screen reader is shown the original text,
\* with an annotation given and with none; a screen-reader session is shown
\* the annotation.
C20_OriginalUnlessScreenReader ==
    inline.op = "annotate" =>
        /\ ~inline.screenreader => inline.shown = inline.text
        /\ (inline.screenreader /\ Len(inline.arguments) > 0) =>
              inline.shown = inline.arguments[1]

(***************************************************************************)
(* inlinefuncs: capitalize, usage, annotate, unicode, verb                 *)
(***************************************************************************)
\* What a call comes to: a value returned, or an exception raised.
Returned(v) == [raised |-> "", value |-> v]

Raised(e) == [raised |-> e, value |-> <<>>]

\* str.capitalize(): the first character in its capital form, the others in
\* their small form.
CapitalChar(c) == CASE c = "x" -> "X" [] c = "y" -> "Y" [] OTHER -> c

SmallChar(c) == CASE c = "X" -> "x" [] c = "Y" -> "y" [] OTHER -> c

capitalize(text) ==
    Returned([i \in DOMAIN text |->
                 IF i = 1 THEN CapitalChar(text[i]) ELSE SmallChar(text[i])])

\* usage(): 'busy' when random() > 0.5, else 'quiet'.
usage(busy) == Returned(IF busy THEN <<"busy">> ELSE <<"quiet">>)

\* session.protocol_flags[key] on what kwargs.get('session') gave.
ProtocolFlag(session, key) ==
    IF session.isNone THEN Raised("AttributeError")
    ELSE Returned(session.v[key])

\* annotate(text, *args, **kwargs), the session being a keyword that may be
\* missing.
annotate_call(text, arguments, session) ==
    LET flag == ProtocolFlag(session, "SCREENREADER")
    IN  IF flag.raised # "" THEN flag
        ELSE Returned(annotate(text, arguments, flag.value))

\* unicode(text, *args, **kwargs).  Inside the module the name `unicode` is
\* this function, so `unicode(args[0])` is a call of it with one text, no
\* further argument and no session.
RECURSIVE unicode(_, _, _)
unicode(text, arguments, session) ==
    LET nargs == Len(arguments)
        u == IF nargs > 0 THEN unicode(arguments[1], <<>>, None)
             ELSE Returned(<<>>)
        o == IF nargs > 0 THEN text ELSE <<>>
        flag == ProtocolFlag(session, "ENCODING")
    IN  IF u.raised # "" THEN u
        ELSE IF flag.raised # "" THEN flag
        ELSE Returned(IF flag.value = "utf-8" THEN u.value ELSE o)

\* verb(text, *args, **kwargs).
inline_verb(text) == Returned(text)

FuncTexts == TextsUpTo({"x", "Y"}, MaxInlineLen)

FuncArguments == UNION {[1..n -> FuncTexts] : n \in 0..2}

Encodings == {"utf-8", "latin-1"}

\* The sessions Evennia hands to an inline function.
ViewingSessions ==
    {Some([SCREENREADER |-> s, ENCODING |-> e]) : s \in BOOLEAN, e \in Encodings}

InlineCall(func, result) ==
    /\ inline.op = "pending"
    /\ inline' = [inline EXCEPT !.op = func, !.result = result]
    /\ UNCHANGED <<cmdVars, poseVars, sayVars, log, mux, quitVars, surfaceVars,
                   detailVars>>

CallCapitalize == InlineCall("capitalize", capitalize(inline.text))

CallUsage == \E busy \in BOOLEAN : InlineCall("usage", usage(busy))

CallAnnotate ==
    InlineCall("annotate",
               annotate_call(inline.text, inline.arguments, inline.session))

CallUnicode ==
    InlineCall("unicode", unicode(inline.text, inline.arguments, inline.session))

CallVerb == InlineCall("verb", inline_verb(inline.text))

InitInlineFuncs ==
    /\ CmdIdle
    /\ log = <<>>
    /\ mux = Unparsed
    /\ QuitIdle
    /\ SurfaceIdle
    /\ DetailIdle
    /\ \E text \in FuncTexts, arguments \in FuncArguments,
          session \in ViewingSessions :
         inline = [op |-> "pending", text |-> text, arguments |-> arguments,
                   session |-> session, result |-> Returned(<<>>)]

NextInlineFuncs ==
    \/ CallCapitalize
    \/ CallUsage
    \/ CallAnnotate
    \/ CallUnicode
    \/ CallVerb

SpecInlineFuncs == InitInlineFuncs /\ [][NextInlineFuncs]_vars

InlineFuncNames == {"capitalize", "usage", "annotate", "unicode", "verb"}

\* C21: no inline function causes a traceback: whatever the text, the
\* arguments and the session, capitalize, usage, annotate, unicode and verb
\* return a value and raise nothing.
C21_NeverRaises ==
    inline.op \in InlineFuncNames => inline.result.raised = ""

\* The four that do return on every input of the model.
C21_OthersReturn ==
    inline.op \in InlineFuncNames \ {"unicode"} => inline.result.raised = ""

\* unicode raises exactly when it is given something after the text.
C21_UnicodeRaisesWithArgument ==
    inline.op = "unicode" =>
        (inline.result.raised = "AttributeError" <=> Len(inline.arguments) > 0)

(***************************************************************************)
(* CmdOoc.func, in commands/say.py and in NOW/commands/command.py          *)
(***************************************************************************)
MaxOocLen == 3

\* location.at_say(speaker, message): the hook hands the message back.
at_say(speaker, message) == message

\* '[OOC |c%s|n] %s' % (caller.name, args)
OocTextNOW(a) == <<"[OOC |c">> \o NAME \o <<"|n] ">> \o a

\* CmdOoc.func of NOW/commands/command.py, as what it sends and the
\* exception it ends with; e.here says whether the caller has a location.
OocResultNOW(a0, e) ==
    LET a == Strip(a0)
    IN  IF a = <<>>
        THEN [err |-> "none", out |-> <<Sent("execute_cmd", <<"help ooc">>, {}, FALSE)>>]
        ELSE IF a[1] = "\"" \/ a[1] = "'"
        THEN IF ~e.here
             THEN [err |-> "AttributeError", out |-> <<>>]
             ELSE [err |-> "none",
                   out |-> <<Sent("execute_cmd",
                                  <<"say/o ">> \o at_say(NAME, Tail(a)), {}, FALSE)>>]
        ELSE IF a[1] = ":" \/ a[1] = ";"
        THEN [err |-> "none",
              out |-> <<Sent("execute_cmd", <<"pose/o ">> \o Tail(a), {}, FALSE)>>]
        ELSE IF ~e.here
        THEN [err |-> "AttributeError", out |-> <<>>]
        ELSE [err |-> "none",
              out |-> <<Sent("msg_contents", OocTextNOW(a), {}, FALSE)>>]

OocFuncNOW ==
    /\ pc = "start"
    /\ cmdname = "NOW.ooc"
    /\ LET r == OocResultNOW(input, env)
       IN  /\ out' = r.out
           /\ error' = r.err
    /\ pc' = "done"
    /\ UNCHANGED <<cmdname, cmdstring, switches, input, args, env, sayVerb, prepend,
                   speech, justified>>
    /\ UNCHANGED poseVars
    /\ UNCHANGED worldVars

OocAlphabet == {"\"", "'", ":", ";", "a", "{", SPACE}

OocArgs == TextsUpTo(OocAlphabet, MaxOocLen)

InitOoc ==
    /\ pc = "start"
    /\ cmdname \in {"ooc", "NOW.ooc"}
    /\ cmdstring \in {"ooc", "_"}
    /\ switches = {}
    /\ input \in OocArgs
    /\ sayVerb = None
    /\ prepend = None
    /\ env \in Envs
    /\ cmdname = "NOW.ooc" => env.char
    /\ args = input
    /\ verb = None
    /\ obj = "None"
    /\ searched = <<>>
    /\ error = "none"
    /\ speech = <<>>
    /\ out = <<>>
    /\ justified = <<>>
    /\ WorldInit

NextOoc == OocFunc \/ OocFuncNOW

SpecOoc == InitOoc /\ [][NextOoc]_vars

\* What ooc has done, read from what it sent.
OocReissued(prefix) ==
    /\ Len(out) = 1
    /\ out[1].sink = "execute_cmd"
    /\ Strip(input) # <<>>
    /\ out[1].text = <<prefix>> \o Tail(Strip(input))

OocHelpOnly == out = <<Sent("execute_cmd", <<"help ooc">>, {}, FALSE)>>

OocTagged(d) ==
    /\ d.sink \in {"msg_contents", "here.msg"}
    /\ d.text # <<>>
    /\ d.text[1] \in {"[OOC ", "[OOC |c"}
    /\ d.sink = "msg_contents" =>
          /\ Rendered(d).err = "none"
          /\ Rendered(d).text \in {ExpectedOoc, OocTextNOW(Strip(input))}

OocBroadcast ==
    /\ Broadcasts # {}
    /\ \A i \in DOMAIN out : OocTagged(out[i])

OocOutcomes ==
    (IF OocReissued("say/o ") THEN {"say/o"} ELSE {})
    \cup (IF OocReissued("pose/o ") THEN {"pose/o"} ELSE {})
    \cup (IF OocBroadcast THEN {"broadcast"} ELSE {})
    \cup (IF OocHelpOnly THEN {"help"} ELSE {})

OocExpected ==
    LET a == Strip(input)
    IN  IF a = <<>> THEN "help"
        ELSE IF a[1] \in {"\"", "'"} THEN "say/o"
        ELSE IF a[1] \in {":", ";"} THEN "pose/o"
        ELSE "broadcast"

\* C22: ooc dispatches on the first character of its trimmed argument: a
\* quote or an apostrophe re-issues the rest as say/o, a colon or a semicolon
\* re-issues the rest as pose/o, any other text that is not empty is
\* broadcast to the room tagged [OOC], an empty argument shows the help and
\* broadcasts nothing; one of the four happens and no other.
C22_OocDispatch ==
    (Done("ooc") \/ Done("NOW.ooc")) => OocOutcomes = {OocExpected}

C22_Witness ==
    /\ Done("ooc")
    /\ input = <<SPACE, "'", "a">>
    /\ out = <<Sent("execute_cmd", <<"say/o ", "a">>, {}, FALSE)>>

\* Without a character (say.py) or without a location where one is used,
\* the command ends in an exception and has sent nothing.
C22_FailedSendsNothing ==
    (pc = "done" /\ cmdname \in {"ooc", "NOW.ooc"} /\ error # "none") => out = <<>>

(***************************************************************************)
(* say/verb and the says that follow it                                    *)
(***************************************************************************)
IsPlainSay(r) == r.cmdname = "say" /\ r.switches = {}

\* The say/verb calls made before call i.
EarlierSayVerbs(i) == {j \in 1..(i - 1) : IsSayVerb(Calls[j].request)}

LatestOf(S) == CHOOSE j \in S : \A k \in S : k <= j

\* The verb call i is to speak with: the argument of the latest say/verb
\* before it; with none before it, what the character keeps (a plain say
\* leaves that as it was), and 'says' if the character keeps nothing.
VerbInForce(i) ==
    IF EarlierSayVerbs(i) # {}
    THEN Strip(Calls[LatestOf(EarlierSayVerbs(i))].request.args)
    ELSE IF Calls[i].after.isNone THEN <<"says">>
    ELSE Calls[i].after.v

WarmUpShown(a) == NAME \o <<" warms up vocally with \"">> \o a \o <<"|n\"">>

SayShown(v, sp) == NAME \o <<" ">> \o v \o <<", |n\"", "|w">> \o sp \o <<"|n\"">>

RoomTexts(o) == {Rendered(o[k]).text : k \in {n \in DOMAIN o : o[n].sink = "msg_contents"}}

\* C23: say/verb stores its argument and broadcasts the warm-up message and
\* nothing else, no speech; every plain say after it speaks with the stored
\* verb until say/verb is given again; a character that never gave say/verb
\* speaks with 'says'.
C23_SayVerbWarmsUpAndStays ==
    \A i \in DOMAIN Calls :
        LET c == Calls[i]
            a == Strip(c.request.args)
        IN  /\ IsSayVerb(c.request) =>
                  /\ c.after = Some(a)
                  /\ Len(c.output.out) = 1
                  /\ c.output.out[1].sink = "msg_contents"
                  /\ Rendered(c.output.out[1]) = [err |-> "none", text |-> WarmUpShown(a)]
            /\ IsPlainSay(c.request) =>
                  /\ RoomTexts(c.output.out) = {SayShown(VerbInForce(i), a)}
                  /\ (EarlierSayVerbs(i) = {} /\ c.after.isNone) =>
                        RoomTexts(c.output.out) = {SayShown(<<"says">>, a)}

\* say/verb growls, say/verb purrs, say: the say purrs.
C23_Witness ==
    /\ Len(Calls) = 3
    /\ IsSayVerb(Calls[1].request) /\ Calls[1].request.args = <<"growls">>
    /\ IsSayVerb(Calls[2].request) /\ Calls[2].request.args = <<"purrs">>
    /\ IsPlainSay(Calls[3].request)
    /\ RoomTexts(Calls[3].output.out) = {SayShown(<<"purrs">>, <<"char">>)}

\* say by a character that keeps no say verb: 'says'.
C23_WitnessSays ==
    /\ Len(Calls) = 1
    /\ IsPlainSay(Calls[1].request)
    /\ Calls[1].after.isNone
    /\ RoomTexts(Calls[1].output.out) = {SayShown(<<"says">>, <<"char">>)}

(***************************************************************************)
(* CmdPose.func                                                            *)
(***************************************************************************)
MaxPowerPoseLen == 4

\* obj.name of what caller.search gave.
NameOf(o) == IF o = "caller" THEN NAME ELSE <<o>>

\* '[OOC]|n |c%s|n%s' % (caller.name, self.args), '|c%s|n%s' % (...)
PoseText(sw, a) ==
    (IF "o" \in sw \/ "ooc" \in sw THEN <<"[OOC]|n ">> ELSE <<>>)
        \o <<"|c">> \o NAME \o <<"|n">> \o a

\* "|g%s|n is able to %s %s." % (caller.name, verb, obj.name)
SuccessText(v, o) ==
    <<"|g">> \o NAME \o <<"|n is able to ">> \o v \o <<" ">> \o NameOf(o) \o <<".">>

\* "|r%s|n fails to %s %s." % (caller.name, verb, obj.name)
FailureText(v, o) ==
    <<"|r">> \o NAME \o <<"|n fails to ">> \o v \o <<" ">> \o NameOf(o) \o <<".">>

\* "You failed to %s %s." % (verb, obj.name)
YouFailedText(v, o) == <<"You failed to ">> \o v \o <<" ">> \o NameOf(o) \o <<".">>

\* The verb response with the success message for every verb, get and drop
\* too.
VerbOutcomeNoExecute(v, o, e) ==
    IF e.access
    THEN IF ~e.here
         THEN [err |-> "AttributeError", out |-> <<>>]
         ELSE [err |-> "none",
               out |-> <<Sent("msg_contents", SuccessText(v, o), {}, FALSE)>>]
    ELSE IF ~e.here
    THEN [err |-> "AttributeError", out |-> <<>>]
    ELSE [err |-> "none",
          out |-> <<Sent("msg_contents(exclude=caller)", FailureText(v, o), {}, FALSE),
                    Sent("caller.msg", YouFailedText(v, o), {}, FALSE)>>]

\* The verb response of func, for a target that was found: e.access is what
\* obj.access(caller, verb) answers.
VerbOutcome(v, o, e) ==
    IF e.access
    THEN IF v = <<"get">> \/ v = <<"drop">>
         THEN [err |-> "none",
               out |-> <<Sent("execute_cmd", v \o <<" ">> \o NameOf(o), {}, FALSE)>>]
         ELSE IF ~e.here
         THEN [err |-> "AttributeError", out |-> <<>>]
         ELSE [err |-> "none",
               out |-> <<Sent("msg_contents", SuccessText(v, o), {}, FALSE)>>]
    ELSE IF ~e.here
    THEN [err |-> "AttributeError", out |-> <<>>]
    ELSE [err |-> "none",
          out |-> <<Sent("msg_contents(exclude=caller)", FailureText(v, o), {}, FALSE),
                    Sent("caller.msg", YouFailedText(v, o), {}, FALSE)>>]

\* CmdPose.func, as what it sends and the exception it ends with; what was
\* sent before an exception stays sent.
PoseFuncResult(sw, a, v, o, e) ==
    LET posed == IF a = <<>> THEN [err |-> "none", out |-> <<>>]
                 ELSE IF ~e.here THEN [err |-> "AttributeError", out |-> <<>>]
                 ELSE [err |-> "none",
                       out |-> <<Sent("msg_contents", PoseText(sw, a), {}, FALSE)>>]
        outcome == IF o = "None" THEN [err |-> "none", out |-> <<>>]
                   ELSE VerbOutcome(v.v, o, e)
    IN  IF posed.err # "none" THEN posed
        ELSE [err |-> outcome.err, out |-> posed.out \o outcome.out]

PoseFunc ==
    /\ pc = "parsed"
    /\ cmdname = "pose"
    /\ LET r == PoseFuncResult(switches, args, verb, obj, env)
       IN  /\ out' = r.out
           /\ error' = r.err
    /\ pc' = "done"
    /\ UNCHANGED <<cmdname, cmdstring, switches, input, args, env, sayVerb, prepend,
                   speech, justified>>
    /\ UNCHANGED poseVars
    /\ UNCHANGED worldVars

PowerPoseAlphabet == {"get", "drop", "a", SPACE, ":"}

PowerPoseArgs == {s \in TextsUpTo(PowerPoseAlphabet, MaxPowerPoseLen) : Strip(s) = s}

PowerPoseCmdStrings == {"pose", "try"}

PowerPoseSwitches == {{}, {"o"}, {"ooc"}}

\* The caller's surroundings: whether it has a location, and what the
\* target's lock answers to the verb.
PoseEnvs ==
    {[char |-> TRUE, here |-> h, hasAccount |-> FALSE, access |-> g] :
        h \in BOOLEAN, g \in BOOLEAN}

InitPose ==
    /\ pc = "start"
    /\ cmdname = "pose"
    /\ cmdstring \in PowerPoseCmdStrings
    /\ switches \in PowerPoseSwitches
    /\ input \in PowerPoseArgs
    /\ args = input
    /\ verb = None
    /\ obj = "None"
    /\ searched = <<>>
    /\ error = "none"
    /\ env \in PoseEnvs
    /\ sayVerb = None
    /\ prepend = None
    /\ speech = <<>>
    /\ out = <<>>
    /\ justified = <<>>
    /\ WorldInit

NextPose == PoseParse \/ PoseFunc

SpecPose == InitPose /\ [][NextPose]_vars

\* What the room and the caller are handed, read from `out`.
PoseSinks == [i \in DOMAIN out |-> out[i].sink]

PosePart == IF args # <<>> THEN <<"msg_contents">> ELSE <<>>

OocPrefixed(t) == t # <<>> /\ t[1] = "[OOC]|n "

PoseTarget == NameOf(obj)

C24_NoLocationSendsNothing ==
    (pc = "done" /\ cmdname = "pose" /\ error = "AttributeError") =>
        (~env.here /\ out = <<>>)

(***************************************************************************)
(* Callers seated on surfaces                                              *)
(***************************************************************************)
\* The callers that appear in some object's surface mapping.
Seated == {c \in Objects : \E o \in Objects : surface[o].has /\ c \in DOMAIN surface[o].map}

C25_SeatedOnlyIsLocked ==
    \A c \in Seated \ {o \in Objects : surface[o].has} : c \in locked

====
